---- MODULE Spec2Model ----
(***************************************************************************)
(* Job application tracker: the "jobs" table of jobs.db and the handlers   *)
(* of the two front-ends that read and write it, the text menu of          *)
(* Job_tracker.py and the dashboard of app.py.                             *)
(*                                                                         *)
(* Text is a sequence of one-character strings, so that trimming, case     *)
(* folding and pattern matching are computed and not assumed.  SQL NULL    *)
(* (Python None) is the one-element tuple NULL, which is no text because   *)
(* "NULL" is not a character.  A REAL is <<"real", n>>, <<"inf">> or       *)
(* <<"-inf">>; a Python float may also be <<"nan">>, which SQLite stores   *)
(* as NULL.                                                                *)
(***************************************************************************)
EXTENDS Integers, Sequences, FiniteSets, TLC

VARIABLES jobs, seq, out

vars == <<jobs, seq, out>>

\* ---------------------------------------------------------------- bounds

\* The largest id the key generator hands out in the model.
MaxId == 2

\* ------------------------------------------------------------------ text

NULL == <<"NULL">>

IsNull(v) == v = NULL

SPACE == " "

UpperLetters ==
    <<"A","B","C","D","E","F","G","H","I","J","K","L","M",
      "N","O","P","Q","R","S","T","U","V","W","X","Y","Z">>

LowerLetters ==
    <<"a","b","c","d","e","f","g","h","i","j","k","l","m",
      "n","o","p","q","r","s","t","u","v","w","x","y","z">>

UpperSet == {UpperLetters[i] : i \in 1..26}

ToLower == [c \in UpperSet |-> LowerLetters[CHOOSE i \in 1..26 : UpperLetters[i] = c]]

\* SQLite's built-in LOWER() and LIKE fold the 26 ASCII letters only.
AsciiLowerChar(c) == IF c \in UpperSet THEN ToLower[c] ELSE c

\* Python's str.lower() folds every cased character; of the non-ASCII ones
\* the model's alphabet holds the pair É / é.
PyLowerChar(c) == IF c = "É" THEN "é" ELSE AsciiLowerChar(c)

\* str.lower()
lower(s) == [i \in 1..Len(s) |-> PyLowerChar(s[i])]

\* SQL LOWER(X): NULL for NULL
SqlLower(v) == IF IsNull(v) THEN NULL ELSE [i \in 1..Len(v) |-> AsciiLowerChar(v[i])]

RECURSIVE lstrip(_)
lstrip(s) == IF s # <<>> /\ Head(s) = SPACE THEN lstrip(Tail(s)) ELSE s

RECURSIVE rstrip(_)
rstrip(s) ==
    IF s # <<>> /\ s[Len(s)] = SPACE THEN rstrip(SubSeq(s, 1, Len(s) - 1)) ELSE s

\* str.strip()
strip(s) == rstrip(lstrip(s))

\* ----------------------------------------------------------------- float

Digits == <<"0","1","2","3","4","5","6","7","8","9">>

DigitSet == {Digits[i] : i \in 1..10}

DigitValue == [c \in DigitSet |-> (CHOOSE i \in 1..10 : Digits[i] = c) - 1]

IsDigit(c) == c \in DigitSet

DigitVal(c) == DigitValue[c]

RECURSIVE DecimalVal(_)
DecimalVal(s) ==
    IF s = <<>> THEN 0 ELSE 10 * DecimalVal(SubSeq(s, 1, Len(s) - 1)) + DigitVal(s[Len(s)])

ValueError == <<"ValueError">>

\* float(token) for tokens made of letters, digits, a sign and blanks: the
\* token is trimmed, "inf", "infinity" and "nan" are read whatever their
\* case, a run of digits is read as its value, anything else raises.
PyFloatUnsigned(t) ==
    LET l == lower(t) IN
    IF l = <<"i","n","f">> \/ l = <<"i","n","f","i","n","i","t","y">> THEN <<"inf">>
    ELSE IF l = <<"n","a","n">> THEN <<"nan">>
    ELSE IF t # <<>> /\ \A i \in 1..Len(t) : IsDigit(t[i]) THEN <<"real", DecimalVal(t)>>
    ELSE ValueError

Negate(f) ==
    IF f = ValueError \/ f = <<"nan">> THEN f
    ELSE IF f = <<"inf">> THEN <<"-inf">>
    ELSE <<"real", 0 - f[2]>>

float(token) ==
    LET t == strip(token) IN
    IF t # <<>> /\ Head(t) = "-" THEN Negate(PyFloatUnsigned(Tail(t)))
    ELSE IF t # <<>> /\ Head(t) = "+" THEN PyFloatUnsigned(Tail(t))
    ELSE PyFloatUnsigned(t)

\* What the REAL column holds after sqlite3 binds a Python value: None and
\* a NaN are stored as NULL, any other float as itself.
BindReal(f) == IF f = <<"nan">> THEN NULL ELSE f

\* ------------------------------------------------------------- the table

\* CREATE TABLE jobs: a stored row.
Row(id, company, role, location, applied_date, status, salary, notes) ==
    [id |-> id, company |-> company, role |-> role, location |-> location,
     applied_date |-> applied_date, status |-> status, salary |-> salary,
     notes |-> notes]

Ids(t) == DOMAIN t

MaxOf(S) == IF S = {} THEN 0 ELSE CHOOSE m \in S : \A x \in S : x <= m

\* The key of the next inserted row.  If the key generator forgot the keys
\* of deleted rows, a deleted row's id would be handed out again.
NextRowidNoAutoincrement(t, s) == MaxOf(Ids(t)) + 1

\* id INTEGER PRIMARY KEY AUTOINCREMENT: one more than the largest key the
\* table has ever held, which sqlite_sequence remembers.
NextRowid(t, s) == MaxOf(Ids(t) \cup {s}) + 1

\* INSERT INTO jobs (company, ..., notes) VALUES (?, ?, ?, ?, ?, ?, ?)
SqlInsert(t, s, company, role, location, applied_date, status, salary, notes) ==
    LET id == NextRowid(t, s) IN
    [x \in Ids(t) \cup {id} |->
        IF x = id
        THEN Row(id, company, role, location, applied_date, status, BindReal(salary), notes)
        ELSE t[x]]

\* SELECT ... FROM jobs WHERE id = ?  (fetchone: the row or None)
get_job_by_id(t, job_id) == IF job_id \in Ids(t) THEN t[job_id] ELSE NULL

\* An UPDATE whose WHERE clause is lost rewrites every row.
SqlUpdateAllRows(t, job_id, status, applied_date, salary, notes) ==
    [x \in Ids(t) |->
        [t[x] EXCEPT !.status = status, !.applied_date = applied_date,
                     !.salary = BindReal(salary), !.notes = notes]]

\* UPDATE jobs SET status = ?, applied_date = ?, salary = ?, notes = ? WHERE id = ?
SqlUpdate(t, job_id, status, applied_date, salary, notes) ==
    [x \in Ids(t) |->
        IF x = job_id
        THEN [t[x] EXCEPT !.status = status, !.applied_date = applied_date,
                          !.salary = BindReal(salary), !.notes = notes]
        ELSE t[x]]

\* A DELETE that takes the neighbouring rows with it.
SqlDeleteUpTo(t, job_id) == [x \in {y \in Ids(t) : y > job_id} |-> t[x]]

\* DELETE FROM jobs WHERE id = ?
SqlDelete(t, job_id) == [x \in Ids(t) \ {job_id} |-> t[x]]

\* The rows of the table in rowid order, the order of a table scan.
RECURSIVE ScanFrom(_, _)
ScanFrom(t, S) ==
    IF S = {} THEN <<>>
    ELSE LET m == CHOOSE x \in S : \A y \in S : x <= y
         IN <<t[m]>> \o ScanFrom(t, S \ {m})

TableScan(t) == ScanFrom(t, Ids(t))

Reverse(s) == [i \in 1..Len(s) |-> s[Len(s) + 1 - i]]

\* ORDER BY id DESC
OrderByIdDesc(t) == Reverse(TableScan(t))

\* The seven columns the menu's listings select (no notes).
Project7(r) ==
    [id |-> r.id, company |-> r.company, role |-> r.role, location |-> r.location,
     applied_date |-> r.applied_date, status |-> r.status, salary |-> r.salary]

Map7(rows) == [i \in 1..Len(rows) |-> Project7(rows[i])]

\* -------------------------------------------------------------- matching

\* X LIKE P in SQLite: % matches any run of characters, _ any one
\* character, every other character itself, ASCII letters whatever their
\* case; NULL LIKE P is NULL, which a WHERE clause takes as false.
RECURSIVE LikeMatch(_, _)
LikeMatch(p, s) ==
    IF p = <<>> THEN s = <<>>
    ELSE IF Head(p) = "%"
         THEN \E k \in 0..Len(s) : LikeMatch(Tail(p), SubSeq(s, k + 1, Len(s)))
    ELSE IF s = <<>> THEN FALSE
    ELSE IF Head(p) = "_" THEN LikeMatch(Tail(p), Tail(s))
    ELSE /\ AsciiLowerChar(Head(p)) = AsciiLowerChar(Head(s))
         /\ LikeMatch(Tail(p), Tail(s))

SqlLike(v, p) == IF IsNull(v) THEN FALSE ELSE LikeMatch(p, v)

\* re.search(pat, s) for a pattern of ordinary characters and dots: a dot
\* matches any one character, every other character of the model's
\* alphabet matches itself.
RegexMatchAt(pat, s, k) ==
    /\ k + Len(pat) - 1 <= Len(s)
    /\ \A i \in 1..Len(pat) : pat[i] = "." \/ pat[i] = s[k + i - 1]

RegexSearch(pat, s) == \E k \in 1..(Len(s) + 1) : RegexMatchAt(pat, s, k)

\* Series.str.contains(pat) on a column without missing values
StrContains(s, pat) == RegexSearch(pat, s)

\* The keyword occurs in the text as a run of consecutive characters.
IsSubstring(k, s) ==
    \E i \in 1..(Len(s) + 1) :
        /\ i + Len(k) - 1 <= Len(s)
        /\ \A j \in 1..Len(k) : k[j] = s[i + j - 1]

\* str.isdigit() on the model's alphabet
isdigit(s) == s # <<>> /\ \A i \in 1..Len(s) : IsDigit(s[i])

\* int(s) of a digit string
int(s) == DecimalVal(s)

\* ------------------------------------------------------------- the output

\* What a handler leaves for its caller to see: which handler ran (op), the
\* id it worked on (0 when none), the message it gave (res), whether it
\* warned of an invalid salary (warn), the text it was asked for (arg), the
\* rows it fetched or displayed (rows), the lines of the file it wrote
\* (file), the sidebar selections it filtered by (filters), the total it
\* showed (total) and the status breakdown it showed, a sequence of
\* <<label, count>> (counts).
Out(op, id, res, warn, arg, rows, file) ==
    [op |-> op, id |-> id, res |-> res, warn |-> warn, arg |-> arg,
     rows |-> rows, file |-> file, filters |-> <<>>, total |-> 0, counts |-> <<>>]

NoText == <<>>

\* --------------------------------------------------------- the text menu

\* add_job: "Company and Role are required."  A check that looks at the
\* company alone lets a record without a role through.
RequiredMissingCompanyOnly(company, role) == company = <<>>

RequiredMissing(company, role) == company = <<>> \/ role = <<>>

\* The salary typed on create did not convert.
SalaryInvalid(salary_input) == salary_input # <<>> /\ float(salary_input) = ValueError

\* add_job, "Convert salary safely": nothing typed or no number gives None.
add_salary(salary_input) ==
    LET salary == float(salary_input) IN
    IF salary_input = <<>> THEN NULL
    ELSE IF salary = ValueError THEN NULL
    ELSE salary

add_job(f) ==
    LET company == strip(f.company)
        role == strip(f.role)
        location == strip(f.location)
        applied_date == strip(f.applied_date)
        status == strip(f.status)
        salary_input == strip(f.salary)
        notes == strip(f.notes)
    IN  IF RequiredMissing(company, role)
        THEN /\ UNCHANGED <<jobs, seq>>
             /\ out' = Out("add_job", 0, "rejected", FALSE, NoText, <<>>, <<>>)
        ELSE /\ NextRowid(jobs, seq) <= MaxId
             /\ jobs' = SqlInsert(jobs, seq, company, role, location, applied_date,
                                  status, add_salary(salary_input), notes)
             /\ seq' = NextRowid(jobs, seq)
             /\ out' = Out("add_job", NextRowid(jobs, seq), "saved",
                           SalaryInvalid(salary_input), NoText, <<>>, <<>>)

view_all_jobs ==
    LET rows == Map7(OrderByIdDesc(jobs)) IN
    /\ UNCHANGED <<jobs, seq>>
    /\ out' = Out("view_all_jobs", 0, IF rows = <<>> THEN "none_found" ELSE "listed",
                  FALSE, NoText, rows, <<>>)

\* WHERE LOWER(status) = ?
StatusEquals(r, status_clean) ==
    ~IsNull(r.status) /\ SqlLower(r.status) = status_clean

\* view_by_status: the SELECT has no ORDER BY, so the rows come as the
\* table scan finds them.
view_by_status(input) ==
    LET status_input == strip(input)
        status_clean == lower(status_input)
        rows == SelectSeq(Map7(TableScan(jobs)), LAMBDA r : StatusEquals(r, status_clean))
    IN  /\ UNCHANGED <<jobs, seq>>
        /\ out' = IF status_input = <<>>
                  THEN Out("view_by_status", 0, "no_query", FALSE, status_input, <<>>, <<>>)
                  ELSE Out("view_by_status", 0,
                           IF rows = <<>> THEN "none_found" ELSE "listed",
                           FALSE, status_input, rows, <<>>)

\* The characters of the model's alphabet in the order of their code
\* points, the order in which SQLite compares text.
CharOrder ==
    <<" ", "%", "+", "-", ".">> \o Digits \o UpperLetters \o <<"_">>
        \o LowerLetters \o <<"É", "é">>

CharRank == [c \in {CharOrder[i] : i \in 1..Len(CharOrder)} |->
                CHOOSE i \in 1..Len(CharOrder) : CharOrder[i] = c]

RECURSIVE TextLess(_, _)
TextLess(a, b) ==
    IF b = <<>> THEN FALSE
    ELSE IF a = <<>> THEN TRUE
    ELSE IF Head(a) = Head(b) THEN TextLess(Tail(a), Tail(b))
    ELSE CharRank[Head(a)] < CharRank[Head(b)]

\* The order of SQLite's sorter on a TEXT column: NULL before any text.
SqlLess(a, b) ==
    IF IsNull(a) THEN ~IsNull(b) ELSE IF IsNull(b) THEN FALSE ELSE TextLess(a, b)

RECURSIVE SortKeys(_)
SortKeys(S) ==
    IF S = {} THEN <<>>
    ELSE LET m == CHOOSE a \in S : \A b \in S \ {a} : SqlLess(a, b)
         IN <<m>> \o SortKeys(S \ {m})

\* SELECT status, COUNT(*) FROM jobs GROUP BY status: one row for each
\* distinct value of the column, NULL and '' being two values, in the
\* order of the sorter.
GroupByStatus(t) ==
    LET keys == SortKeys({t[x].status : x \in Ids(t)}) IN
    [i \in 1..Len(keys) |->
        <<keys[i], Cardinality({x \in Ids(t) : t[x].status = keys[i]})>>]

Unknown == <<"U","n","k","n","o","w","n">>

\* label = status if status else "Unknown": None and '' are both false.
StatusLabel(status) == IF IsNull(status) \/ status = <<>> THEN Unknown ELSE status

\* show_stats: the total, and when it is not 0 one line for each row of the
\* GROUP BY.  (The "top companies" lines that follow are left out.)
show_stats ==
    LET total == Cardinality(Ids(jobs))
        status_counts == GroupByStatus(jobs)
    IN  /\ UNCHANGED <<jobs, seq>>
        /\ out' = IF total = 0
                  THEN Out("show_stats", 0, "no_jobs", FALSE, NoText, <<>>, <<>>)
                  ELSE [Out("show_stats", 0, "shown", FALSE, NoText, <<>>, <<>>)
                           EXCEPT !.total = total,
                                  !.counts = [i \in 1..Len(status_counts) |->
                                                 <<StatusLabel(status_counts[i][1]),
                                                   status_counts[i][2]>>]]

\* new_x = x when nothing was typed.
KeepIfBlank(new, old) == IF new = <<>> THEN old ELSE new

\* update_job: a salary that does not convert loses the old one.
update_salary_drop(new_salary_input, salary) ==
    LET new_salary == float(new_salary_input) IN
    IF new_salary_input = <<>> THEN salary
    ELSE IF new_salary = ValueError THEN NULL
    ELSE new_salary

\* update_job: nothing typed or no number keeps the old salary.
update_salary(new_salary_input, salary) ==
    LET new_salary == float(new_salary_input) IN
    IF new_salary_input = <<>> THEN salary
    ELSE IF new_salary = ValueError THEN salary
    ELSE new_salary

update_job(id_input, f) ==
    LET job_id_input == strip(id_input) IN
    IF ~isdigit(job_id_input)
    THEN /\ UNCHANGED <<jobs, seq>>
         /\ out' = Out("update_job", 0, "invalid_id", FALSE, NoText, <<>>, <<>>)
    ELSE
    LET job_id == int(job_id_input) IN
    IF job_id \notin Ids(jobs)
    THEN /\ UNCHANGED <<jobs, seq>>
         /\ out' = Out("update_job", job_id, "not_found", FALSE, NoText, <<>>, <<>>)
    ELSE
    LET job == get_job_by_id(jobs, job_id)
        new_status == KeepIfBlank(strip(f.status), job.status)
        new_date == KeepIfBlank(strip(f.applied_date), job.applied_date)
        new_salary_input == strip(f.salary)
        new_notes == KeepIfBlank(strip(f.notes), job.notes)
        new_salary == update_salary(new_salary_input, job.salary)
    IN  /\ jobs' = SqlUpdate(jobs, job_id, new_status, new_date, new_salary, new_notes)
        /\ UNCHANGED seq
        /\ out' = Out("update_job", job_id, "updated", SalaryInvalid(new_salary_input),
                      NoText, <<>>, <<>>)

delete_job(id_input, confirm_input) ==
    LET job_id_input == strip(id_input) IN
    IF ~isdigit(job_id_input)
    THEN /\ UNCHANGED <<jobs, seq>>
         /\ out' = Out("delete_job", 0, "invalid_id", FALSE, NoText, <<>>, <<>>)
    ELSE
    LET job_id == int(job_id_input)
        confirm == lower(strip(confirm_input))
    IN  IF job_id \notin Ids(jobs)
        THEN /\ UNCHANGED <<jobs, seq>>
             /\ out' = Out("delete_job", job_id, "not_found", FALSE, NoText, <<>>, <<>>)
        ELSE IF confirm # <<"y">>
        THEN /\ UNCHANGED <<jobs, seq>>
             /\ out' = Out("delete_job", job_id, "cancelled", FALSE, NoText, <<>>, <<>>)
        ELSE /\ jobs' = SqlDelete(jobs, job_id)
             /\ UNCHANGED seq
             /\ out' = Out("delete_job", job_id, "deleted", FALSE, NoText, <<>>, <<>>)

\* WHERE LOWER(company) LIKE ? OR LOWER(role) LIKE ? OR LOWER(location) LIKE ?
SearchMatches(r, like_pattern) ==
    \/ SqlLike(SqlLower(r.company), like_pattern)
    \/ SqlLike(SqlLower(r.role), like_pattern)
    \/ SqlLike(SqlLower(r.location), like_pattern)

search_jobs(input) ==
    LET keyword == lower(strip(input))
        like_pattern == <<"%">> \o keyword \o <<"%">>
        rows == SelectSeq(Map7(OrderByIdDesc(jobs)),
                          LAMBDA r : SearchMatches(r, like_pattern))
    IN  /\ UNCHANGED <<jobs, seq>>
        /\ out' = IF keyword = <<>>
                  THEN Out("search_jobs", 0, "no_query", FALSE, keyword, <<>>, <<>>)
                  ELSE Out("search_jobs", 0,
                           IF rows = <<>> THEN "none_found" ELSE "listed",
                           FALSE, keyword, rows, <<>>)

\* str(n) of an integer
RECURSIVE NatToText(_)
NatToText(n) ==
    IF n < 10 THEN <<Digits[n + 1]>> ELSE NatToText(n \div 10) \o <<Digits[(n % 10) + 1]>>

IntToText(n) == IF n < 0 THEN <<"-">> \o NatToText(0 - n) ELSE NatToText(n)

\* A cell as csv.writer writes it: nothing for None, str() of a number,
\* the text itself (the model's alphabet needs no quoting).
CsvReal(v) ==
    IF v = <<"inf">> THEN <<"i","n","f">>
    ELSE IF v = <<"-inf">> THEN <<"-","i","n","f">>
    ELSE IntToText(v[2]) \o <<".","0">>

CsvText(v) == IF IsNull(v) THEN <<>> ELSE v

CsvRow(r) ==
    <<IntToText(r.id), CsvText(r.company), CsvText(r.role), CsvText(r.location),
      CsvText(r.applied_date), CsvText(r.status),
      IF IsNull(r.salary) THEN <<>> ELSE CsvReal(r.salary), CsvText(r.notes)>>

CsvHeader ==
    <<<<"I","D">>,
      <<"C","o","m","p","a","n","y">>,
      <<"R","o","l","e">>,
      <<"L","o","c","a","t","i","o","n">>,
      <<"A","p","p","l","i","e","d"," ","D","a","t","e">>,
      <<"S","t","a","t","u","s">>,
      <<"S","a","l","a","r","y">>,
      <<"N","o","t","e","s">>>>

export_to_csv ==
    LET rows == OrderByIdDesc(jobs) IN
    /\ UNCHANGED <<jobs, seq>>
    /\ out' = IF rows = <<>>
              THEN Out("export_to_csv", 0, "no_jobs", FALSE, NoText, rows, <<>>)
              ELSE Out("export_to_csv", 0, "exported", FALSE, NoText, rows,
                       <<CsvHeader>> \o [i \in 1..Len(rows) |-> CsvRow(rows[i])])

\* --------------------------------------------------------- the dashboard

\* The options of the two Status select boxes.
StatusOptions ==
    <<<<"A","p","p","l","i","e","d">>,
      <<"O","n","l","i","n","e"," ","T","e","s","t">>,
      <<"I","n","t","e","r","v","i","e","w">>,
      <<"R","e","j","e","c","t","e","d">>,
      <<"O","f","f","e","r">>,
      <<"O","t","h","e","r">>>>

fetch_all_jobs(t) == OrderByIdDesc(t)

insert_job(t, s, company, role, location, applied_date, status, salary, notes) ==
    SqlInsert(t, s, company, role, location, applied_date, status, salary, notes)

app_update_job(t, job_id, status, applied_date, salary, notes) ==
    SqlUpdate(t, job_id, status, applied_date, salary, notes)

app_delete_job(t, job_id) == SqlDelete(t, job_id)

\* df[col].dropna().unique()
Distinct(t, col) == {t[x][col] : x \in {y \in Ids(t) : ~IsNull(t[y][col])}}

\* Series.isin(values): a missing value is in no list
IsIn(v, values) == ~IsNull(v) /\ v \in values

\* The search mask of the dashboard: a missing location counts as "".
DashMask(r, s) ==
    \/ StrContains(lower(r.company), s)
    \/ StrContains(lower(r.role), s)
    \/ StrContains(lower(IF IsNull(r.location) THEN <<>> ELSE r.location), s)

OutFiltered(res, arg, rows, status_filter, company_filter) ==
    [op |-> "page_dashboard", id |-> 0, res |-> res, warn |-> FALSE, arg |-> arg,
     rows |-> rows, file |-> <<>>, filters |-> <<status_filter, company_filter>>,
     total |-> 0, counts |-> <<>>]

\* Series.fillna("Unknown"): a missing value becomes the text, '' stays ''.
fillna(v, value) == IF IsNull(v) THEN value ELSE v

\* Series.value_counts(): one entry for each distinct value, the most
\* frequent first; values as frequent as each other are taken in the order
\* in which they first occur.
RECURSIVE SortCounts(_, _)
SortCounts(vals, S) ==
    IF S = {} THEN <<>>
    ELSE LET n(v) == Cardinality({i \in 1..Len(vals) : vals[i] = v})
             first(v) == CHOOSE i \in 1..Len(vals) :
                            vals[i] = v /\ \A j \in 1..(i - 1) : vals[j] # v
             m == CHOOSE a \in S : \A b \in S \ {a} :
                     n(a) > n(b) \/ (n(a) = n(b) /\ first(a) < first(b))
         IN <<<<m, n(m)>>>> \o SortCounts(vals, S \ {m})

value_counts(vals) == SortCounts(vals, {vals[i] : i \in 1..Len(vals)})

\* df["status"].fillna("Unknown").value_counts()
status_counts(df) == value_counts([i \in 1..Len(df) |-> fillna(df[i].status, Unknown)])

page_dashboard(status_filter, company_filter, search_text) ==
    LET df == fetch_all_jobs(jobs)
        s == lower(strip(search_text))
        f1 == IF status_filter # {}
              THEN SelectSeq(df, LAMBDA r : IsIn(r.status, status_filter)) ELSE df
        f2 == IF company_filter # {}
              THEN SelectSeq(f1, LAMBDA r : IsIn(r.company, company_filter)) ELSE f1
        filtered == IF strip(search_text) # <<>>
                    THEN SelectSeq(f2, LAMBDA r : DashMask(r, s)) ELSE f2
    IN  /\ UNCHANGED <<jobs, seq>>
        /\ out' = IF df = <<>>
                  THEN Out("page_dashboard", 0, "no_jobs", FALSE, NoText, <<>>, <<>>)
                  ELSE [OutFiltered("shown", s, filtered, status_filter, company_filter)
                           EXCEPT !.total = Len(df), !.counts = status_counts(df)]

page_add_job(f) ==
    IF RequiredMissing(strip(f.company), strip(f.role))
    THEN /\ UNCHANGED <<jobs, seq>>
         /\ out' = Out("page_add_job", 0, "rejected", FALSE, NoText, <<>>, <<>>)
    ELSE /\ NextRowid(jobs, seq) <= MaxId
         /\ jobs' = insert_job(jobs, seq, strip(f.company), strip(f.role),
                               strip(f.location), strip(f.applied_date), strip(f.status),
                               add_salary(strip(f.salary)), strip(f.notes))
         /\ seq' = NextRowid(jobs, seq)
         /\ out' = Out("page_add_job", NextRowid(jobs, seq), "saved",
                       SalaryInvalid(strip(f.salary)), NoText, <<>>, <<>>)

\* page_manage_jobs, "handle salary": an empty box clears the salary, a
\* number replaces it, anything else keeps the value read from the table.
manage_salary(new_salary_input, salary) ==
    LET new_salary == float(strip(new_salary_input)) IN
    IF strip(new_salary_input) = <<>> THEN NULL
    ELSE IF new_salary = ValueError THEN salary
    ELSE new_salary

\* page_manage_jobs with "Save changes" pressed
page_manage_save(selected_id, f) ==
    IF fetch_all_jobs(jobs) = <<>>
    THEN /\ UNCHANGED <<jobs, seq>>
         /\ out' = Out("page_manage_save", 0, "no_jobs", FALSE, NoText, <<>>, <<>>)
    ELSE /\ selected_id \in Ids(jobs)
         /\ LET job == get_job_by_id(jobs, selected_id) IN
            /\ jobs' = app_update_job(jobs, job.id, f.status, strip(f.applied_date),
                                      manage_salary(f.salary, job.salary), strip(f.notes))
            /\ UNCHANGED seq
            /\ out' = Out("page_manage_save", job.id, "updated",
                          SalaryInvalid(strip(f.salary)), NoText, <<>>, <<>>)

\* page_manage_jobs with "Delete this job" pressed
page_manage_delete(selected_id) ==
    IF fetch_all_jobs(jobs) = <<>>
    THEN /\ UNCHANGED <<jobs, seq>>
         /\ out' = Out("page_manage_delete", 0, "no_jobs", FALSE, NoText, <<>>, <<>>)
    ELSE /\ selected_id \in Ids(jobs)
         /\ jobs' = app_delete_job(jobs, get_job_by_id(jobs, selected_id).id)
         /\ UNCHANGED seq
         /\ out' = Out("page_manage_delete", selected_id, "deleted", FALSE,
                       NoText, <<>>, <<>>)

\* -------------------------------------------------------------- inputs

Form(company, role, location, applied_date, status, salary, notes) ==
    [company |-> company, role |-> role, location |-> location,
     applied_date |-> applied_date, status |-> status, salary |-> salary,
     notes |-> notes]

\* What is typed at the prompts of add_job.
AddInputs ==
    {Form(<<" ","A","b"," ">>, <<"c">>, <<"d">>, <<>>, <<>>, <<>>, <<>>),
     Form(<<"A","b">>, <<" ","c">>, <<"d">>, <<"2","5">>, <<" ","A","p","p","l","i","e","d">>, <<"5">>, <<"n">>),
     Form(<<"A","b">>, <<"c">>, <<"d">>, <<>>, <<>>, <<"a","b","c">>, <<>>),
     Form(<<>>, <<"c">>, <<"d">>, <<"2","5">>, <<"A","p","p","l","i","e","d">>, <<"5">>, <<"n">>),
     Form(<<" ">>, <<"c">>, <<"d">>, <<>>, <<>>, <<>>, <<>>),
     Form(<<"A","b">>, <<" ">>, <<"d">>, <<"2","5">>, <<"A","p","p","l","i","e","d">>, <<"5">>, <<"n">>)}

\* What is entered in the form of page_add_job; the status is an option
\* of its select box.
PageAddInputs ==
    {Form(<<"A","b">>, <<"c">>, <<"d">>, <<>>, <<"A","p","p","l","i","e","d">>, <<>>, <<>>),
     Form(<<" ","A","b">>, <<"c"," ">>, <<"d">>, <<"2","5">>, <<"A","p","p","l","i","e","d">>, <<"a","b","c">>, <<"n">>),
     Form(<<>>, <<"c">>, <<"d">>, <<>>, <<"A","p","p","l","i","e","d">>, <<"5">>, <<>>),
     Form(<<"A","b">>, <<>>, <<"d">>, <<>>, <<"A","p","p","l","i","e","d">>, <<>>, <<>>)}

SalaryInputs == {<<>>, <<"a","b","c">>, <<"5">>}

\* What is typed at the prompts of update_job after the id.
UpdateInputs ==
    [status : {<<>>, <<" ","A","p","p","l","i","e","d">>}, applied_date : {<<>>, <<" ","2","5">>}, salary : SalaryInputs, notes : {<<>>, <<"n">>}]

\* What is entered in the boxes of page_manage_jobs; the status is an
\* option of its select box.
ManageInputs ==
    [status : {StatusOptions[1]}, applied_date : {<<>>, <<" ","2","5">>},
     salary : SalaryInputs, notes : {<<>>, <<"n">>}]

\* update_job asks for the new values, and delete_job for the confirmation,
\* only once it has found the record; before that nothing is typed.
Asked(id_input, inputs, nothing) ==
    IF isdigit(strip(id_input)) /\ int(strip(id_input)) \in Ids(jobs)
    THEN inputs ELSE {nothing}

\* page_manage_jobs offers the ids of the table in its select box, and no
\* box at all when the table is empty.
job_id_list == IF Ids(jobs) = {} THEN {0} ELSE Ids(jobs)

IdInputs == {<<"1">>, <<"2">>, <<"x">>}

ConfirmInputs == {<<"Y">>, <<"n">>}

\* The records the queries are run on.
FillInputs ==
    {Form(<<"A","b">>, <<"c">>, <<>>, <<>>, <<>>, <<>>, <<>>),
     Form(<<"A","b">>, <<"c">>, <<>>, <<>>, Unknown, <<>>, <<>>),
     Form(<<"A","b">>, <<"c">>, <<"d">>, <<>>, <<"É">>, <<"5">>, <<>>)}

PageFillInputs ==
    {Form(<<"É">>, <<"c">>, <<>>, <<>>, <<"A","p","p","l","i","e","d">>, <<>>, <<>>)}

StatusQueries == {<<>>, <<" ">>, <<"É">>, <<"é">>, <<"a","p","p","l","i","e","d">>, <<"A","P","P","L","I","E","D">>, <<"A","p","p">>}

Keywords == {<<>>, <<"a">>, <<"B">>, <<"_">>, <<"%">>, <<".">>, <<"x">>, <<"a","b">>, <<"d">>, <<"é">>}

SearchTexts == {<<>>, <<"a">>, <<".">>, <<"x">>, <<"é">>}

\* Salaries as they may be typed: nothing, a number, and the words that
\* float() reads as an infinity or as not-a-number.
SalaryTokens ==
    {<<>>, <<"5">>, <<"i","n","f">>, <<"-","i","n","f">>, <<"n","a","n">>}

SalaryAddInputs ==
    {Form(<<"A","b">>, <<"c">>, <<>>, <<>>, <<>>, s, <<>>) : s \in SalaryTokens}

SalaryPageAddInputs ==
    {Form(<<"A","b">>, <<"c">>, <<>>, <<>>, StatusOptions[1], s, <<>>) :
        s \in {<<>>, <<" ","I","n","f","i","n","i","t","y">>}}

SalaryUpdateInputs ==
    [status : {<<>>}, applied_date : {<<>>}, salary : SalaryTokens, notes : {<<>>}]

SalaryManageInputs ==
    [status : {StatusOptions[1]}, applied_date : {<<>>},
     salary : {<<"5">>, <<"-","i","n","f">>, <<"N","a","N">>}, notes : {<<>>}]

\* The sidebar selections of page_dashboard: everything selected (the
\* default), everything cleared, or one status alone.
FilterChoices(t) ==
    {<<Distinct(t, "status"), Distinct(t, "company")>>, <<{}, {}>>}
        \cup {<<{v}, Distinct(t, "company")>> : v \in Distinct(t, "status")}

\* --------------------------------------------------------- specification

\* create_table on a new jobs.db: no rows, no key handed out yet.
Init ==
    /\ jobs = [x \in {} |-> NULL]
    /\ seq = 0
    /\ out = Out("create_table", 0, "created", FALSE, NoText, <<>>, <<>>)

\* The handlers that write the table.
Write ==
    \/ \E f \in AddInputs : add_job(f)
    \/ \E i \in IdInputs :
          \E f \in Asked(i, UpdateInputs, Form(<<>>, <<>>, <<>>, <<>>, <<>>, <<>>, <<>>)) :
             update_job(i, f)
    \/ \E i \in IdInputs : \E c \in Asked(i, ConfirmInputs, <<>>) : delete_job(i, c)
    \/ \E f \in PageAddInputs : page_add_job(f)
    \/ \E i \in job_id_list, f \in ManageInputs : page_manage_save(i, f)
    \/ \E i \in job_id_list : page_manage_delete(i)

\* Records of several companies, locations and statuses come and go.
Fill ==
    \/ \E f \in FillInputs : add_job(f)
    \/ \E f \in PageFillInputs : page_add_job(f)
    \/ \E i \in IdInputs : \E c \in Asked(i, {<<"y">>}, <<>>) : delete_job(i, c)

\* The handlers that read the table.
Read ==
    \/ view_all_jobs
    \/ \E q \in StatusQueries : view_by_status(q)
    \/ \E k \in Keywords : search_jobs(k)
    \/ export_to_csv
    \/ show_stats
    \/ \E fc \in FilterChoices(jobs), k \in SearchTexts : page_dashboard(fc[1], fc[2], k)

\* Records are created and updated with the salaries of SalaryTokens.
Salaries ==
    \/ \E f \in SalaryAddInputs : add_job(f)
    \/ \E i \in IdInputs :
          \E f \in Asked(i, SalaryUpdateInputs, Form(<<>>, <<>>, <<>>, <<>>, <<>>, <<>>, <<>>)) :
             update_job(i, f)
    \/ \E f \in SalaryPageAddInputs : page_add_job(f)
    \/ \E i \in job_id_list, f \in SalaryManageInputs : page_manage_save(i, f)

Next == Write \/ Fill \/ Read \/ Salaries

\* Every handler, on every input of the model.
Spec == Init /\ [][Next]_vars

\* The writing handlers alone.
SpecWrite == Init /\ [][Write]_vars

\* Tables that add_job, page_add_job and delete_job build, and the reading
\* handlers on them.
SpecRead == Init /\ [][Fill \/ Read]_vars

\* Creates and updates with every kind of salary.
SpecSalary == Init /\ [][Salaries]_vars

\* ------------------------------------------------------------ properties

\* The row read back for an id, or nothing.
Found(t, job_id) == job_id \in Ids(t)

Creates == {"add_job", "page_add_job"}

Updates == {"update_job", "page_manage_save"}

Deletes == {"delete_job", "page_manage_delete"}

BlankRequired(f) == strip(f.company) = <<>> \/ strip(f.role) = <<>>

\* C1: a create whose company or role is empty after trimming is rejected
\* and leaves the table and the key generator exactly as they were; so
\* every stored record has a non-empty company and a non-empty role.
C1_RejectedCreateStoresNothing ==
    [][ /\ \A f \in AddInputs \cup PageAddInputs :
              (/\ out'.op \in Creates
               /\ BlankRequired(f)
               /\ (add_job(f) \/ page_add_job(f)))
                  => /\ out'.res = "rejected"
                     /\ jobs' = jobs
                     /\ Cardinality(Ids(jobs')) = Cardinality(Ids(jobs))
                     /\ seq' = seq
        /\ \A x \in Ids(jobs') :
              strip(jobs'[x].company) # <<>> /\ strip(jobs'[x].role) # <<>>
      ]_vars

\* A create was rejected while the table held records.
C1_Witness ==
    out.op \in Creates /\ out.res = "rejected" /\ Ids(jobs) # {}

\* What the claim C2 expects to read back for an optional text field.
ReadBackAsSupplied(input, stored) ==
    IF strip(input) = <<>> THEN IsNull(stored) ELSE stored = strip(input)

\* C2: after a create with a company and a role, the record read by the
\* new id holds every field as supplied (trimmed), and every optional field
\* left unset is null.
C2_CreateReadRoundTrip ==
    [][ \A f \in AddInputs \cup PageAddInputs :
            (/\ out'.op \in Creates
             /\ ~BlankRequired(f)
             /\ (add_job(f) \/ page_add_job(f)))
                => /\ Found(jobs', out'.id)
                   /\ LET r == get_job_by_id(jobs', out'.id) IN
                      /\ r.company = strip(f.company)
                      /\ r.role = strip(f.role)
                      /\ ReadBackAsSupplied(f.location, r.location)
                      /\ ReadBackAsSupplied(f.applied_date, r.applied_date)
                      /\ ReadBackAsSupplied(f.status, r.status)
                      /\ ReadBackAsSupplied(f.notes, r.notes)
                      /\ (strip(f.salary) = <<>> => IsNull(r.salary))
                      /\ (float(f.salary) # ValueError => r.salary = float(f.salary))
      ]_vars

\* The inputs of the model whose salary does not convert.
InvalidSalary(forms) == {f \in forms : SalaryInvalid(strip(f.salary))}

CreateInputsInvalidSalary ==
    {f \in InvalidSalary(AddInputs \cup PageAddInputs) : ~BlankRequired(f)}

UpdateInputsInvalidSalary == InvalidSalary(UpdateInputs)

ManageInputsInvalidSalary == InvalidSalary(ManageInputs)

\* The id inputs that name the id n.
IdInputsOf(n) == {i \in IdInputs : isdigit(strip(i)) /\ int(strip(i)) = n}

\* The record id kept its salary and took the other fields typed in f.
SalaryKeptRestTyped(f, id) ==
    /\ out'.res = "updated"
    /\ jobs'[id].salary = jobs[id].salary
    /\ (strip(f.status) # <<>> => jobs'[id].status = strip(f.status))
    /\ (strip(f.applied_date) # <<>> => jobs'[id].applied_date = strip(f.applied_date))
    /\ (strip(f.notes) # <<>> => jobs'[id].notes = strip(f.notes))

\* The record id kept its salary and took the other fields entered in f.
SalaryKeptRestEntered(f, id) ==
    /\ out'.res = "updated"
    /\ jobs'[id].salary = jobs[id].salary
    /\ jobs'[id].status = f.status
    /\ jobs'[id].applied_date = strip(f.applied_date)
    /\ jobs'[id].notes = strip(f.notes)

\* C3: a salary that does not convert never fails the operation; create
\* then stores the record without a salary, update keeps the salary the
\* record had and still applies the other fields it was given.  (The
\* handlers warn exactly when the salary did not convert, and do so on no
\* other path, so only steps that warned can be steps of such an input;
\* "P \/ ~A" is "A => P" with the cheaper side first.)
C3_SalaryCoercion ==
    [][ /\ (out'.op \in Creates /\ out'.warn)
            => \A f \in CreateInputsInvalidSalary :
                  \/ /\ out'.res = "saved"
                     /\ Found(jobs', out'.id)
                     /\ IsNull(jobs'[out'.id].salary)
                  \/ ~(add_job(f) \/ page_add_job(f))
        /\ (out'.op = "update_job" /\ out'.warn /\ Found(jobs, out'.id))
            => \A i \in IdInputsOf(out'.id), f \in UpdateInputsInvalidSalary :
                  SalaryKeptRestTyped(f, out'.id) \/ ~update_job(i, f)
        /\ (out'.op = "page_manage_save" /\ out'.warn /\ Found(jobs, out'.id))
            => \A f \in ManageInputsInvalidSalary :
                  SalaryKeptRestEntered(f, out'.id) \/ ~page_manage_save(out'.id, f)
      ]_vars

\* An update warned of an invalid salary and the record still has one.
C3_Witness ==
    /\ out.op \in Updates /\ out.res = "updated" /\ out.warn
    /\ ~IsNull(jobs[out.id].salary)

\* A field left blank in the form f kept its stored value in the record id.
BlankFieldsKept(f, id) ==
    /\ (strip(f.status) = <<>> => jobs'[id].status = jobs[id].status)
    /\ (strip(f.applied_date) = <<>> => jobs'[id].applied_date = jobs[id].applied_date)
    /\ (strip(f.salary) = <<>> => jobs'[id].salary = jobs[id].salary)
    /\ (strip(f.notes) = <<>> => jobs'[id].notes = jobs[id].notes)

\* C4: on update each of status, applied date, salary and notes left blank
\* keeps its stored value, whatever the other three are, in the menu's
\* update_job and in the dashboard's Manage Jobs save alike.
C4_BlankKeepsField ==
    [][ /\ (out'.op = "update_job" /\ Found(jobs, out'.id))
            => \A i \in IdInputsOf(out'.id), f \in UpdateInputs :
                  update_job(i, f) => BlankFieldsKept(f, out'.id)
        /\ (out'.op = "page_manage_save" /\ Found(jobs, out'.id))
            => \A f \in ManageInputs :
                  page_manage_save(out'.id, f) => BlankFieldsKept(f, out'.id)
      ]_vars

\* C5: an update changes at most the status, applied date, salary and notes
\* of the record with its id; that record's id, company, role and location,
\* every other record and the set of ids stay as they were, also when no
\* record has the id.
C5_UpdateFrame ==
    [][ out'.op \in Updates
            => /\ Ids(jobs') = Ids(jobs)
               /\ seq' = seq
               /\ \A x \in Ids(jobs) :
                    /\ jobs'[x].id = jobs[x].id
                    /\ jobs'[x].company = jobs[x].company
                    /\ jobs'[x].role = jobs[x].role
                    /\ jobs'[x].location = jobs[x].location
                    /\ (x # out'.id => jobs'[x] = jobs[x])
               /\ (out'.res # "updated" => jobs' = jobs)
      ]_vars

\* A record was updated and differs from another one, which was left alone.
C5_Witness ==
    /\ out.op \in Updates /\ out.res = "updated"
    /\ \E x \in Ids(jobs) :
          /\ x # out.id
          /\ jobs[x].status # jobs[out.id].status
          /\ jobs[x].notes # jobs[out.id].notes

\* C6: a delete of an id the table does not hold reports that nothing was
\* found and leaves the table as it was, so a repeated delete changes
\* nothing; a delete of a stored id removes that record and no other.
C6_DeleteExactlyOne ==
    [][ /\ \A i \in IdInputs, c \in ConfirmInputs :
              (/\ out'.op = "delete_job"
               /\ isdigit(strip(i)) /\ ~Found(jobs, int(strip(i)))
               /\ delete_job(i, c))
                  => /\ out'.res = "not_found"
                     /\ jobs' = jobs
                     /\ Cardinality(Ids(jobs')) = Cardinality(Ids(jobs))
        /\ (out'.op \in Deletes /\ out'.res # "deleted") => jobs' = jobs
        /\ \A i \in IdInputs :
              (/\ out'.op = "delete_job"
               /\ isdigit(strip(i)) /\ Found(jobs, int(strip(i)))
               /\ delete_job(i, <<"Y">>))
                  => out'.res = "deleted"
        /\ (out'.op \in Deletes /\ out'.res = "deleted")
              => /\ Found(jobs, out'.id)
                 /\ ~Found(jobs', out'.id)
                 /\ Cardinality(Ids(jobs')) = Cardinality(Ids(jobs)) - 1
                 /\ Ids(jobs') = Ids(jobs) \ {out'.id}
                 /\ \A x \in Ids(jobs') : jobs'[x] = jobs[x]
      ]_vars

\* A record was deleted and another one is still there.
C6_Witness ==
    /\ out.op \in Deletes /\ out.res = "deleted"
    /\ \E x \in Ids(jobs) : x < out.id

\* C7: ids are unique and never used twice: a create hands out an id above
\* every id handed out before, deleted records' ids included (seq never
\* falls and no stored id is above it), and no operation changes the id of
\* a record.
C7_IdsNeverReused ==
    [][ /\ seq' >= seq
        /\ \A x \in Ids(jobs') : x <= seq' /\ jobs'[x].id = x
        /\ \A x \in Ids(jobs') \ Ids(jobs) : x > seq
        /\ (out'.op \in Creates /\ out'.res = "saved")
              => /\ Ids(jobs') \ Ids(jobs) = {out'.id}
                 /\ \A x \in Ids(jobs) : jobs'[x] = jobs[x]
      ]_vars

\* A create handed out an id while a smaller id, of a deleted record, was
\* free.
C7_Witness ==
    /\ out.op \in Creates /\ out.res = "saved"
    /\ \E y \in 1..(out.id - 1) : ~Found(jobs, y)

\* The ids of the rows a handler returned.
RowIds(rows) == {rows[i].id : i \in 1..Len(rows)}

\* Two texts are the same whatever the case of their letters.
SameIgnoringCase(a, b) == lower(a) = lower(b)

\* A query was run (something was typed) and its rows are in out.
Queried(op) == out.op = op /\ out.res \in {"listed", "none_found"}

\* C8: filterByStatus returns exactly the records whose status is the
\* query text as a whole, whatever the case of the letters: no record whose
\* status only contains the text, no record without a status, and every
\* record that matches.
C8_FilterByStatusExact ==
    Queried("view_by_status")
        => RowIds(out.rows)
             = {x \in Ids(jobs) :
                    /\ ~IsNull(jobs[x].status)
                    /\ SameIgnoringCase(jobs[x].status, out.arg)}

\* C9: list, filterByStatus, search and exportAll return their records in
\* strictly descending order of id.
C9_DescendingIds ==
    out.op \in {"view_all_jobs", "view_by_status", "search_jobs", "export_to_csv"}
        => \A i \in 1..Len(out.rows), j \in 1..Len(out.rows) :
              i < j => out.rows[i].id > out.rows[j].id

\* The keyword occurs literally, whatever the case of the letters, in the
\* company, the role or a location that is not null.
KeywordOccurs(r, keyword) ==
    \/ IsSubstring(lower(keyword), lower(r.company))
    \/ IsSubstring(lower(keyword), lower(r.role))
    \/ (~IsNull(r.location) /\ IsSubstring(lower(keyword), lower(r.location)))

\* C10: search returns exactly the records in which the keyword, taken
\* literally ('%', '_' and '.' included), occurs in the company, the role
\* or a non-null location, whatever the case of the letters.
C10_SearchLiteralSubstring ==
    /\ Queried("search_jobs")
          => RowIds(out.rows) = {x \in Ids(jobs) : KeywordOccurs(jobs[x], out.arg)}
    /\ (out.op = "page_dashboard" /\ out.res = "shown" /\ out.arg # <<>>
            /\ out.filters = <<{}, {}>>)
          => RowIds(out.rows) = {x \in Ids(jobs) : KeywordOccurs(jobs[x], out.arg)}

\* The counts of a status breakdown added up.
RECURSIVE SumCounts(_)
SumCounts(c) == IF c = <<>> THEN 0 ELSE c[1][2] + SumCounts(Tail(c))

\* The entries of a status breakdown with the label l.
EntriesLabelled(c, l) == {i \in 1..Len(c) : c[i][1] = l}

\* A status breakdown was shown, by show_stats or by the dashboard.
BreakdownShown == out.op \in {"show_stats", "page_dashboard"} /\ out.res = "shown"

\* C11: the status breakdown is a partition of the records: no label occurs
\* twice, the records with a null status are counted in one entry labelled
\* "Unknown", and the counts add up to the total, which is the number of
\* records.
C11_CountsPartition ==
    BreakdownShown
        => /\ \A i \in 1..Len(out.counts), j \in 1..Len(out.counts) :
                 i # j => out.counts[i][1] # out.counts[j][1]
           /\ LET nulls == {x \in Ids(jobs) : IsNull(jobs[x].status)} IN
              nulls # {}
                 => /\ Cardinality(EntriesLabelled(out.counts, Unknown)) = 1
                    /\ \A i \in EntriesLabelled(out.counts, Unknown) :
                          out.counts[i][2] >= Cardinality(nulls)
           /\ out.total = Cardinality(Ids(jobs))
           /\ SumCounts(out.counts) = out.total

\* A REAL that is a finite number.
IsFinite(v) == v[1] = "real" /\ v[2] \in Int

\* C12: whatever salaries are typed on create and on update, "inf", "-inf"
\* and "nan" included, the salary of every stored record is null or a
\* finite number.
C12_SalaryNullOrFinite ==
    \A x \in Ids(jobs) : IsNull(jobs[x].salary) \/ IsFinite(jobs[x].salary)

\* The columns of an exported row, in the order of the header.
ExportColumns ==
    <<"id", "company", "role", "location", "applied_date", "status", "salary", "notes">>

\* The line renders the record: its id first, an empty cell for every null
\* field, the text itself for a text field and something for a salary.
RendersRecord(line, r) ==
    /\ Len(line) = Len(ExportColumns)
    /\ line[1] = IntToText(r.id)
    /\ \A k \in 2..Len(ExportColumns) :
          LET v == r[ExportColumns[k]] IN
          IF IsNull(v) THEN line[k] = <<>>
          ELSE IF ExportColumns[k] = "salary" THEN line[k] # <<>>
          ELSE line[k] = v

\* The lines of the export, after the header, that start with the id x.
LinesOf(file, x) == {i \in 2..Len(file) : file[i][1] = IntToText(x)}

\* C13: whatever the table holds, nothing included, the export is the
\* header ID, Company, Role, Location, Applied Date, Status, Salary, Notes
\* followed by exactly one line for each record, so one line more than
\* there are records, with an empty cell for every null field; and the
\* export leaves the table as it was.
C13_ExportHeaderAndRows ==
    [][ out'.op = "export_to_csv"
            => /\ jobs' = jobs
               /\ seq' = seq
               /\ Len(out'.file) = Cardinality(Ids(jobs)) + 1
               /\ out'.file[1] = CsvHeader
               /\ \A x \in Ids(jobs) :
                     /\ Cardinality(LinesOf(out'.file, x)) = 1
                     /\ \A i \in LinesOf(out'.file, x) :
                           RendersRecord(out'.file[i], jobs[x])
      ]_vars

====
